---- MODULE Spec2Model ----
(***************************************************************************)
(* Model of pymeasure/adapters/ni_gpib_232ct.py: the NI_GPIB_232 adapter,  *)
(* several instances of which share one serial connection to a National    *)
(* Instruments GPIB-232CT box.                                             *)
(*                                                                         *)
(* The code is synchronous and single threaded, so every adapter method is *)
(* one action.  An action records, in `trace`, every primitive the method  *)
(* performed on the shared connection, in program order, so that ordering  *)
(* claims about one call are state predicates over `trace`.                *)
(*                                                                         *)
(* A command written to the connection is modelled as the sequence of the  *)
(* whitespace separated fields of the formatted text, e.g. the text        *)
(* "wrt 7 \n  X" is <<"wrt", "7", "X">>.  Reply lines are text.            *)
(***************************************************************************)
EXTENDS Integers, Sequences, FiniteSets, TLC

VARIABLES
    address,     \* per adapter instance: its GPIB address
    connection,  \* per adapter instance: the connection object it holds
    buf,         \* read buffer of the shared connection
    trace,       \* primitives the last adapter call performed
    last,        \* the last adapter call: op, instance, argument, result
    hp           \* the last call on an instrument driver (HP3314A, HP853A)

vars == <<address, connection, buf, trace, last, hp>>

(* ------------------------------------------------------------------ *)
(* Bounds and input sets                                               *)
(* ------------------------------------------------------------------ *)

\* most adapter instances sharing the connection (parent included)
MaxInstances == 2

\* Python values passed as `address`: None or an int
NoneVal == [tag |-> "none"]

IntVal(n) == [tag |-> "int", val |-> n]

\* addresses a caller passes to the constructor
AddrInputs == {NoneVal, IntVal(7), IntVal(31)}

\* addresses a caller passes to gpib()
GpibInputs == {IntVal(9), IntVal(31)}

\* command strings a caller passes to write / write_bytes
Commands == {"FR1KZ", "QFR"}

\* byte strings a caller passes to send_command, as <<length, text>>
CommandBytes == {<<1, "b'?'">>}

\* counts a caller passes to read_bytes
Counts == {-1, 4}

\* the four lines the box answers to `stat n`: status, error, serial error, count
StatReplies ==
    { <<"8448", "0", "0", "0">>,        \* END | CMPL, no error
      <<"16640", "2", "1", "5">>,       \* bit 16384 (time out) | CMPL; ERR
                                        \* clear, error codes left over
      <<"49408", "6", "4", "5">> }      \* ERR | bit 16384 | CMPL, EABO, EFRM

\* what the box answers to the bare `stat`: nothing, or one line
StatTailReplies == { <<>>, <<"0">> }

\* what the box answers to `rd`: the data line followed by a count line, or
\* nothing within the connection's timeout
RdReplies == { <<"HP3314A", "7">>, <<>> }

\* command strings a caller passes to ask
AskCommands == {"QFR"}

\* what the box answers to the `EOT` query
EotReplies == { <<"0">>, <<"1">> }

\* what the box answers to `id`
IdReplies == { <<"GPIB-232CT-A">> }

\* the integers int() can parse out of the reply lines above
Numerals == {0, 1, 2, 4, 5, 6, 7, 8448, 16640, 49408}

(* ------------------------------------------------------------------ *)
(* Formatting and parsing                                              *)
(* ------------------------------------------------------------------ *)

\* str() of an address as an f-string renders it
Str(v) == IF v.tag = "none" THEN "None" ELSE ToString(v.val)

\* the decimal texts int() accepts, with their values
Decimal == [ s \in { ToString(n) : n \in Numerals } |->
               CHOOSE n \in Numerals : ToString(n) = s ]

IsNumeric(s) == s \in DOMAIN Decimal

\* int(line); used only where IsNumeric(s)
IntOf(s) == Decimal[s]

RECURSIVE BitAnd(_, _)
BitAnd(a, b) ==
    IF a = 0 \/ b = 0 THEN 0
    ELSE (a % 2) * (b % 2) + 2 * BitAnd(a \div 2, b \div 2)

GPIB_STATUS ==
    [ ERR |-> 32768, TIMO |-> 13684, END |-> 8192, SRQI |-> 4096,
      CMPL |-> 256, LOK |-> 128, REM |-> 64, CIC |-> 32, ATN |-> 16,
      TACS |-> 8, LACS |-> 4, DTAS |-> 2, SCAS |-> 1 ]

\* the named conditions a status integer tests true for (member in value)
StatusNames ==
    [ stat \in Numerals |->
        { m \in DOMAIN GPIB_STATUS :
            BitAnd(stat, GPIB_STATUS[m]) = GPIB_STATUS[m] } ]

GPIB_ERR ==
    [ ECMD |-> 17, EBUS |-> 14, ECAP |-> 11, EABO |-> 6, ESAC |-> 5,
      EARG |-> 4, EADR |-> 3, ENOL |-> 2, ECIC |-> 1, NGER |-> 0 ]

SERIAL_ERR == [ EFRM |-> 4, EOFL |-> 3, EORN |-> 2, EPAR |-> 1, NSER |-> 0 ]

\* the named conditions a GPIB error integer tests true for (member in value)
ErrNames ==
    [ e \in Numerals |->
        { m \in DOMAIN GPIB_ERR : BitAnd(e, GPIB_ERR[m]) = GPIB_ERR[m] } ]

\* the named conditions a serial error integer tests true for
SerNames ==
    [ e \in Numerals |->
        { m \in DOMAIN SERIAL_ERR : BitAnd(e, SERIAL_ERR[m]) = SERIAL_ERR[m] } ]

\* bool(gpib_stat & GPIB_STATUS.ERR), per status integer
ErrFlagged == [ stat \in Numerals |-> BitAnd(stat, GPIB_STATUS.ERR) # 0 ]

(* ------------------------------------------------------------------ *)
(* The shared connection (VISAAdapter primitives)                      *)
(*   c.buf   : reply lines waiting in the read buffer                  *)
(*   c.trace : primitives performed by the running call                *)
(*   c.got   : lines returned by read in the running call              *)
(*   c.exc   : exception raised by the running call, or "none"         *)
(* ------------------------------------------------------------------ *)

\* a reply line remembers the command it answers, its position in that
\* answer, the instance whose call caused it and whether an earlier call did
Tagged(reply, cmd, self) ==
    [ k \in 1..Len(reply) |->
        [val |-> reply[k], re |-> cmd, pos |-> k, by |-> self, age |-> 0] ]

\* lines left over from an earlier call
Aged(b) == [ k \in 1..Len(b) |-> [b[k] EXCEPT !.age = 1] ]

Begin(b) == [buf |-> Aged(b), trace |-> <<>>, got |-> <<>>, exc |-> "none"]

VisaWrite(c, cmd, reply, self) ==
    IF c.exc # "none" THEN c
    ELSE [c EXCEPT !.trace = Append(@, [ev |-> "write", cmd |-> cmd]),
                   !.buf = @ \o Tagged(reply, cmd, self)]

VisaFlush(c) ==
    IF c.exc # "none" THEN c
    ELSE [c EXCEPT !.trace = Append(@, [ev |-> "flush"]), !.buf = <<>>]

VisaRead(c) ==
    IF c.exc # "none" THEN c
    ELSE IF c.buf = <<>> THEN [c EXCEPT !.exc = "VisaIOError"]
    ELSE [c EXCEPT !.trace = Append(@, [ev |-> "read", line |-> Head(c.buf)]),
                   !.got = Append(@, Head(c.buf)),
                   !.buf = Tail(@)]

VisaReadBytes(c, n) ==
    IF c.exc # "none" THEN c
    ELSE IF c.buf = <<>> THEN [c EXCEPT !.exc = "VisaIOError"]
    ELSE [c EXCEPT !.trace = Append(@, [ev |-> "read_bytes", n |-> n,
                                        line |-> Head(c.buf)]),
                   !.got = Append(@, Head(c.buf)),
                   !.buf = Tail(@)]

\* int(super().read())
ReadInt(c) ==
    LET c1 == VisaRead(c) IN
    IF c1.exc # "none" THEN c1
    ELSE IF IsNumeric(c1.got[Len(c1.got)].val) THEN c1
    ELSE [c1 EXCEPT !.exc = "ValueError"]

(* ------------------------------------------------------------------ *)
(* NI_GPIB_232                                                         *)
(* ------------------------------------------------------------------ *)

\* LogStatus with the error raised instead of logged
LogStatus_Raises(c) ==
    IF c.exc # "none" THEN c
    ELSE LET n == Len(c.got)
             stat == IntOf(c.got[n - 3].val)
             err == IntOf(c.got[n - 2].val)
             ser == IntOf(c.got[n - 1].val)
             dbg == [ev |-> "debug", stat |-> stat, err |-> err, ser |-> ser,
                     count |-> IntOf(c.got[n].val), names |-> StatusNames[stat],
                     errnames |-> ErrNames[err], sernames |-> SerNames[ser]]
         IN IF ErrFlagged[stat]
            THEN [c EXCEPT !.trace = Append(@, dbg), !.exc = "GPIBError"]
            ELSE [c EXCEPT !.trace = Append(@, dbg)]

\* LogStatus with the warning decided by the GPIB error code
LogStatus_WarnsOnErrorCode(c) ==
    IF c.exc # "none" THEN c
    ELSE LET n == Len(c.got)
             stat == IntOf(c.got[n - 3].val)
             err == IntOf(c.got[n - 2].val)
             ser == IntOf(c.got[n - 1].val)
             dbg == [ev |-> "debug", stat |-> stat, err |-> err, ser |-> ser,
                     count |-> IntOf(c.got[n].val), names |-> StatusNames[stat],
                     errnames |-> ErrNames[err], sernames |-> SerNames[ser]]
         IN IF err # 0
            THEN [c EXCEPT !.trace = @ \o <<dbg, [ev |-> "warning"]>>]
            ELSE [c EXCEPT !.trace = Append(@, dbg)]

LogStatus(c) ==
    IF c.exc # "none" THEN c
    ELSE LET n == Len(c.got)
             stat == IntOf(c.got[n - 3].val)
             err == IntOf(c.got[n - 2].val)
             ser == IntOf(c.got[n - 1].val)
             count == IntOf(c.got[n].val)
             dbg == [ev |-> "debug", stat |-> stat, err |-> err, ser |-> ser,
                     count |-> count, names |-> StatusNames[stat],
                     errnames |-> ErrNames[err], sernames |-> SerNames[ser]]
         IN IF ErrFlagged[stat]
            THEN [c EXCEPT !.trace = @ \o <<dbg, [ev |-> "warning"]>>]
            ELSE [c EXCEPT !.trace = Append(@, dbg)]

\* CheckErrors without the flush that precedes `stat n`
CheckErrors_NoFlush(c, self, st, tail) ==
    LET c2 == VisaWrite(c, <<"stat", "n">>, st, self)
        c3 == ReadInt(ReadInt(ReadInt(ReadInt(c2))))
        c4 == LogStatus(c3)
    IN VisaWrite(c4, <<"stat">>, tail, self)

\* CheckErrors without the closing `stat`
CheckErrors_NoTrailer(c, self, st, tail) ==
    LET c1 == VisaFlush(c)
        c2 == VisaWrite(c1, <<"stat", "n">>, st, self)
        c3 == ReadInt(ReadInt(ReadInt(ReadInt(c2))))
    IN LogStatus(c3)

CheckErrors(c, self, st, tail) ==
    LET c1 == VisaFlush(c)
        c2 == VisaWrite(c1, <<"stat", "n">>, st, self)
        c3 == ReadInt(ReadInt(ReadInt(ReadInt(c2))))
        c4 == LogStatus(c3)
    IN VisaWrite(c4, <<"stat">>, tail, self)

Finish(c, op, self, arg, ret) ==
    /\ UNCHANGED hp
    /\ buf' = c.buf
    /\ trace' = c.trace
    /\ last' = [op |-> op, self |-> self, arg |-> arg, exc |-> c.exc,
                ret |-> IF c.exc = "none" THEN ret ELSE "raised"]

\* write addressing the instance that opened the connection
WriteCall_ParentAddress(self, command, st, tail) ==
    LET c1 == VisaWrite(Begin(buf), <<"wrt", Str(address[1]), command>>,
                        <<>>, self)
    IN CheckErrors(c1, self, st, tail)

WriteCall(self, command, st, tail) ==
    LET c1 == VisaWrite(Begin(buf), <<"wrt", Str(address[self]), command>>,
                        <<>>, self)
    IN CheckErrors(c1, self, st, tail)

Write(self, command) ==
    \E st \in StatReplies, tail \in StatTailReplies :
        /\ Finish(WriteCall(self, command, st, tail), "write", self, command, "None")
        /\ UNCHANGED <<address, connection>>

\* write_bytes has the same body as write
WriteBytesCall(self, command, st, tail) ==
    LET c1 == VisaWrite(Begin(buf), <<"wrt", Str(address[self]), command>>,
                        <<>>, self)
    IN CheckErrors(c1, self, st, tail)

WriteBytes(self, command) ==
    \E st \in StatReplies, tail \in StatTailReplies :
        /\ Finish(WriteBytesCall(self, command, st, tail), "write_bytes", self,
                  command, "None")
        /\ UNCHANGED <<address, connection>>

\* send_command with the status queried before the command is sent
SendCommandCall_CheckFirst(self, data, st, tail) ==
    LET c1 == CheckErrors(Begin(buf), self, st, tail)
    IN VisaWrite(c1, <<"cmd", "#" \o ToString(data[1]), data[2]>>, <<>>, self)

\* data is <<len(data), str(data)>>
SendCommandCall(self, data, st, tail) ==
    LET c1 == VisaWrite(Begin(buf), <<"cmd", "#" \o ToString(data[1]), data[2]>>,
                        <<>>, self)
    IN CheckErrors(c1, self, st, tail)

SendCommand(self, data) ==
    \E st \in StatReplies, tail \in StatTailReplies :
        /\ Finish(SendCommandCall(self, data, st, tail), "send_command", self,
                  data, "None")
        /\ UNCHANGED <<address, connection>>

\* read returning the last line it consumed
ReadCall_ReturnsLast(self, rd, st, tail) ==
    LET c1 == VisaFlush(Begin(buf))
        c2 == VisaWrite(c1, <<"rd", Str(address[self])>>, rd, self)
        c3 == VisaRead(c2)
        c4 == CheckErrors(c3, self, st, tail)
    IN [c |-> c4,
        ret_val |-> IF c4.exc = "none" THEN c4.got[Len(c4.got)] ELSE "raised"]

\* read() on the connection as the caller left it: the connection after
\* read(), and the value read() returns
ReadFrom(c, self, rd, st, tail) ==
    LET c1 == VisaFlush(c)
        c2 == VisaWrite(c1, <<"rd", Str(address[self])>>, rd, self)
        c3 == VisaRead(c2)
        c4 == CheckErrors(c3, self, st, tail)
    IN [c |-> c4,
        ret_val |-> IF c3.exc = "none" THEN c3.got[Len(c3.got)] ELSE "raised"]

\* read without the flush that precedes `rd`
ReadCall_NoFlush(self, rd, st, tail) ==
    LET c2 == VisaWrite(Begin(buf), <<"rd", Str(address[self])>>, rd, self)
        c3 == VisaRead(c2)
        c4 == CheckErrors(c3, self, st, tail)
    IN [c |-> c4,
        ret_val |-> IF c3.exc = "none" THEN c3.got[Len(c3.got)] ELSE "raised"]

ReadCall(self, rd, st, tail) == ReadFrom(Begin(buf), self, rd, st, tail)

Read(self) ==
    \E rd \in RdReplies, st \in StatReplies, tail \in StatTailReplies :
        LET r == ReadCall(self, rd, st, tail) IN
        /\ Finish(r.c, "read", self, "None", r.ret_val)
        /\ UNCHANGED <<address, connection>>

\* read_bytes requesting the count as given and reading the default
ReadBytesCall_RequestsAsGiven(self, count, rd, st, tail) ==
    LET n == IF count = -1 THEN 255 ELSE count
        c1 == VisaFlush(Begin(buf))
        c2 == VisaWrite(c1, <<"rd", "#" \o ToString(count), Str(address[self])>>,
                        rd, self)
        c3 == VisaReadBytes(c2, n)
        c4 == CheckErrors(c3, self, st, tail)
    IN [c |-> c4,
        ret_val |-> IF c3.exc = "none" THEN c3.got[Len(c3.got)] ELSE "raised"]

ReadBytesCall(self, count, rd, st, tail) ==
    LET n == IF count = -1 THEN 255 ELSE count
        c1 == VisaFlush(Begin(buf))
        c2 == VisaWrite(c1, <<"rd", "#" \o ToString(n), Str(address[self])>>,
                        rd, self)
        c3 == VisaReadBytes(c2, n)
        c4 == CheckErrors(c3, self, st, tail)
    IN [c |-> c4,
        ret_val |-> IF c3.exc = "none" THEN c3.got[Len(c3.got)] ELSE "raised"]

ReadBytes(self, count) ==
    \E rd \in RdReplies, st \in StatReplies, tail \in StatTailReplies :
        LET r == ReadBytesCall(self, count, rd, st, tail) IN
        /\ Finish(r.c, "read_bytes", self, count, r.ret_val)
        /\ UNCHANGED <<address, connection>>

\* ask(command, kwargs): flush, the addressed command, then self.read()
AskCall(self, command, rd, st, tail) ==
    LET c1 == VisaFlush(Begin(buf))
        c2 == VisaWrite(c1, <<"wrt", Str(address[self]), command>>, <<>>, self)
    IN ReadFrom(c2, self, rd, st, tail)

Ask(self, command) ==
    \E rd \in RdReplies, st \in StatReplies, tail \in StatTailReplies :
        LET r == AskCall(self, command, rd, st, tail) IN
        /\ Finish(r.c, "ask", self, command, r.ret_val)
        /\ UNCHANGED <<address, connection>>

\* the eoi getter: the connection after it, and bool(int(line))
EoiGetCall(self, reply) ==
    LET c1 == VisaWrite(Begin(buf), <<"EOT">>, reply, self)
        c2 == ReadInt(c1)
    IN [c |-> c2,
        ret_val |-> IF c2.exc = "none"
                    THEN [val |-> IntOf(c2.got[Len(c2.got)].val) # 0,
                          line |-> c2.got[Len(c2.got)]]
                    ELSE "raised"]

EoiGet(self) ==
    \E reply \in EotReplies :
        LET r == EoiGetCall(self, reply) IN
        /\ Finish(r.c, "eoi", self, "None", r.ret_val)
        /\ UNCHANGED <<address, connection>>

\* the eoi setter
EoiSetCall(self, value) ==
    VisaWrite(Begin(buf), <<"EOT", IF value THEN "1" ELSE "0">>, <<>>, self)

EoiSet(self, value) ==
    /\ Finish(EoiSetCall(self, value), "eoi_set", self, value, "None")
    /\ UNCHANGED <<address, connection>>

\* the version getter: the connection after it, and the bytes read
VersionCall(self, reply) ==
    LET c1 == VisaFlush(Begin(buf))
        c2 == VisaWrite(c1, <<"id">>, reply, self)
        c3 == VisaReadBytes(c2, 71)
    IN [c |-> c3,
        ret_val |-> IF c3.exc = "none" THEN c3.got[Len(c3.got)] ELSE "raised"]

Version(self) ==
    \E reply \in IdReplies :
        LET r == VersionCall(self, reply) IN
        /\ Finish(r.c, "version", self, "None", r.ret_val)
        /\ UNCHANGED <<address, connection>>

\* __init__ setting eoi whatever resource_name is
SpawnCall_SetsEoi(self) ==
    LET c1 == VisaFlush(VisaWrite(Begin(buf), <<"EOS", "D">>, <<>>, self))
    IN VisaWrite(c1, <<"EOT", "1">>, <<>>, self)

\* __init__ when resource_name is an NI_GPIB_232: the connection is shared,
\* `EOS D` is sent and the read buffer flushed; eoi is not set
SpawnCall(self) ==
    VisaFlush(VisaWrite(Begin(buf), <<"EOS", "D">>, <<>>, self))

\* the connection an adapter holds when it is constructed with the adapter
\* `parent` as its resource_name: the parent's own
AdapterConnection(parent) == connection[parent]

\* gpib storing only an address of the GPIB range
Gpib_Validating(self, a) ==
    /\ Len(address) < MaxInstances
    /\ address' = Append(address,
                         IF a.tag = "int" /\ a.val \notin 0..30 THEN NoneVal ELSE a)
    /\ connection' = Append(connection, AdapterConnection(self))
    /\ Finish(SpawnCall(Len(address) + 1), "gpib", self, a, Len(address) + 1)

\* gpib handing its own address attribute on with the connection
Gpib_Rebinds(self, a) ==
    /\ Len(address) < MaxInstances
    /\ address' = Append([address EXCEPT ![self] = a], a)
    /\ connection' = Append(connection, AdapterConnection(self))
    /\ Finish(SpawnCall(Len(address) + 1), "gpib", self, a, Len(address) + 1)

\* gpib(address): a new instance on the connection of `self`
Gpib(self, a) ==
    /\ Len(address) < MaxInstances
    /\ address' = Append(address, a)
    /\ connection' = Append(connection, AdapterConnection(self))
    /\ Finish(SpawnCall(Len(address) + 1), "gpib", self, a, Len(address) + 1)

\* __init__ from a resource name: a fresh connection
InitCall(eoi) ==
    LET c1 == VisaFlush(VisaWrite(Begin(<<>>), <<"EOS", "D">>, <<>>, 1))
    IN VisaWrite(c1, <<"EOT", IF eoi THEN "1" ELSE "0">>, <<>>, 1)

\* ---------------------------------------------------------------------
\* Instrument drivers (hp3314A.py, hp853a.py).  A byte string is a sequence
\* of one-character strings.

Whitespace == {" ", "\t", "\n", "\r"}

DigitChars == <<"0", "1", "2", "3", "4", "5", "6", "7", "8", "9">>

DigitSet == { DigitChars[i] : i \in DOMAIN DigitChars }

DigitValue == [ ch \in DigitSet |-> CHOOSE d \in 0..9 : DigitChars[d + 1] = ch ]

\* bytes.lstrip(chars) and bytes.rstrip(chars): drop leading / trailing
\* bytes that are members of chars
RECURSIVE lstrip(_, _)
lstrip(v, chars) ==
    IF v # <<>> /\ Head(v) \in chars THEN lstrip(Tail(v), chars) ELSE v

RECURSIVE rstrip(_, _)
rstrip(v, chars) ==
    IF v # <<>> /\ v[Len(v)] \in chars
    THEN rstrip(SubSeq(v, 1, Len(v) - 1), chars)
    ELSE v

\* "%d" % v for a natural number v
RECURSIVE FormatD(_)
FormatD(v) ==
    IF v < 10 THEN <<DigitChars[v + 1]>>
    ELSE Append(FormatD(v \div 10), DigitChars[(v % 10) + 1])

\* "%f" % v for a natural number v: six decimals
FormatF(v) == FormatD(v) \o <<".", "0", "0", "0", "0", "0", "0">>

IsDigits(v) == v # <<>> /\ \A i \in DOMAIN v : v[i] \in DigitSet

RECURSIVE DigitsValue(_)
DigitsValue(v) ==
    IF v = <<>> THEN 0
    ELSE 10 * DigitsValue(SubSeq(v, 1, Len(v) - 1)) + DigitValue[v[Len(v)]]

ValueError == [exc |-> "ValueError"]

\* int(v) for a byte string without surrounding blanks or sign
int(v) ==
    IF IsDigits(v)
    THEN [exc |-> "none", kind |-> "int", val |-> DigitsValue(v), frac |-> <<>>]
    ELSE ValueError

\* float(v) for a byte string without surrounding blanks, sign or exponent;
\* frac holds the decimals without their trailing zeros
float(v) ==
    LET dots == { i \in DOMAIN v : v[i] = "." } IN
    IF dots = {} THEN
        IF IsDigits(v)
        THEN [exc |-> "none", kind |-> "float", val |-> DigitsValue(v),
              frac |-> <<>>]
        ELSE ValueError
    ELSE IF Cardinality(dots) > 1 THEN ValueError
    ELSE LET d  == CHOOSE i \in dots : TRUE
             ip == SubSeq(v, 1, d - 1)
             fp == SubSeq(v, d + 1, Len(v))
         IN IF /\ ip = <<>> \/ IsDigits(ip)
               /\ fp = <<>> \/ IsDigits(fp)
               /\ ip # <<>> \/ fp # <<>>
            THEN [exc |-> "none", kind |-> "float", val |-> DigitsValue(ip),
                  frac |-> rstrip(fp, {"0"})]
            ELSE ValueError

\* the control properties of HP3314A with a strict_range validator: the
\* query, the set command template (mnemonic, conversion, unit), the
\* accepted range over the naturals, and the get_process lambda (the bytes
\* it strips on the left and on the right, and the conversion it applies)
HP3314A ==
    [ amplitude   |-> [get |-> "QAP", mnemonic |-> <<"A", "P">>, fmt |-> "f",
                       unit |-> <<"V", "O">>, lo |-> 1, hi |-> 10,
                       lstrip |-> {"A", "P"}, rstrip |-> {"V", "O"},
                       conv |-> "float"],
      n           |-> [get |-> "QNM", mnemonic |-> <<"N", "M">>, fmt |-> "d",
                       unit |-> <<"E", "N">>, lo |-> 1, hi |-> 9999,
                       lstrip |-> {"N", "M"}, rstrip |-> {" ", "E", "N"},
                       conv |-> "int"],
      phase       |-> [get |-> "QPH", mnemonic |-> <<"P", "H">>, fmt |-> "f",
                       unit |-> <<"D", "G">>, lo |-> 0, hi |-> 360,
                       lstrip |-> {"P", "H"}, rstrip |-> {"D", "G"},
                       conv |-> "float"],
      recall_wave |-> [get |-> "QRW", mnemonic |-> <<"R", "W">>, fmt |-> "f",
                       unit |-> <<>>, lo |-> 0, hi |-> 5,
                       lstrip |-> {"P", "H"}, rstrip |-> {},
                       conv |-> "int"],
      symmetry    |-> [get |-> "QSY", mnemonic |-> <<"S", "Y">>, fmt |-> "d",
                       unit |-> <<"P", "S">>, lo |-> 1, hi |-> 99,
                       lstrip |-> {"P", "H"}, rstrip |-> {"D", "G"},
                       conv |-> "int"] ]

\* values a caller assigns to a property
HpValues == {0, 3, 50, 100}

\* validators.strict_range(value, values)
strict_range(value, p) == HP3314A[p].lo <= value /\ value <= HP3314A[p].hi

\* set_command % value
SetCommand(p, value) ==
    HP3314A[p].mnemonic
        \o (IF HP3314A[p].fmt = "d" THEN FormatD(value) ELSE FormatF(value))
        \o HP3314A[p].unit

\* the property's get_process lambda
get_process(p, v) ==
    LET s == rstrip(lstrip(v, HP3314A[p].lstrip), HP3314A[p].rstrip) IN
    IF HP3314A[p].conv = "int" THEN int(s) ELSE float(s)

\* HP3314A.read: the bytes of the instrument's reply, rstrip()ped
HpRead(reply) == rstrip(reply, Whitespace)

\* the instrument answers a query with the value it holds, in the format of
\* the property's set command, terminated by CR LF
HpReply(p, value) == SetCommand(p, value) \o <<"\r", "\n">>

\* no instrument driver call has been made; every property of the
\* instrument holds the lowest value of its range
HpIdle == [op |-> "none", dev |-> [p \in DOMAIN HP3314A |-> HP3314A[p].lo]]

Init ==
    \E a \in AddrInputs, eoi \in BOOLEAN :
        /\ address = <<a>>
        /\ connection = <<"ASRL5::INSTR">>
        /\ hp = HpIdle
        /\ buf = InitCall(eoi).buf
        /\ trace = InitCall(eoi).trace
        /\ last = [op |-> "init", self |-> 1, arg |-> a, exc |-> "none",
                   ret |-> "None"]

Next ==
    \/ \E self \in DOMAIN address, command \in Commands : Write(self, command)
    \/ \E self \in DOMAIN address, command \in Commands : WriteBytes(self, command)
    \/ \E self \in DOMAIN address, data \in CommandBytes : SendCommand(self, data)
    \/ \E self \in DOMAIN address : Read(self)
    \/ \E self \in DOMAIN address, count \in Counts : ReadBytes(self, count)
    \/ \E self \in DOMAIN address, a \in GpibInputs : Gpib(self, a)
    \/ \E self \in DOMAIN address, command \in AskCommands : Ask(self, command)
    \/ \E self \in DOMAIN address : EoiGet(self)
    \/ \E self \in DOMAIN address, value \in BOOLEAN : EoiSet(self, value)
    \/ \E self \in DOMAIN address : Version(self)

Spec == Init /\ [][Next]_vars

\* ---------------------------------------------------------------------
\* The instrument drivers, called on an adapter that is not used otherwise.

\* assigning value to property p: the validator, then write(set_command % value)
HpSet(p, value) ==
    /\ UNCHANGED <<address, connection, buf, trace, last>>
    /\ IF strict_range(value, p)
       THEN hp' = [op |-> "set", prop |-> p, value |-> value,
                   sent |-> SetCommand(p, value), exc |-> "none",
                   dev |-> [hp.dev EXCEPT ![p] = value]]
       ELSE hp' = [op |-> "set", prop |-> p, value |-> value,
                   sent |-> <<>>, exc |-> "ValueError", dev |-> hp.dev]

\* reading property p: values(get_command), then get_process on the reply
HpGet(p) ==
    /\ UNCHANGED <<address, connection, buf, trace, last>>
    /\ LET reply  == HpReply(p, hp.dev[p])
           result == get_process(p, HpRead(reply))
       IN hp' = [op |-> "get", prop |-> p, sent |-> HP3314A[p].get,
                 reply |-> reply, exc |-> result.exc, result |-> result,
                 dev |-> hp.dev]

\* A reply to IERR is a sequence of words, the word ERROR and the
\* separators blank, comma and CR LF, each one element.
IerrReplies ==
    { <<"NO", " ", "ERROR", "\r\n">>,
      <<"SYNTAX", " ", "ERROR", "\r\n">>,
      <<"SYNTAX", " ", "ERROR", ",", " ", "RANGE", " ", "ERROR", "\r\n">>,
      <<"OK", "\r\n">>,
      <<"\r\n">> }

\* str.split(sep): the pieces of v between the occurrences of sep
RECURSIVE split(_, _)
split(v, sep) ==
    LET at == { i \in DOMAIN v : v[i] = sep } IN
    IF at = {} THEN <<v>>
    ELSE LET i == CHOOSE j \in at : \A k \in at : j <= k
         IN <<SubSeq(v, 1, i - 1)>> \o split(SubSeq(v, i + 1, Len(v)), sep)

\* str.strip(chars)
strip(v, chars) == rstrip(lstrip(v, chars), chars)

\* HP853A.check_errors on the reply to ask('IERR', 100)
check_errors(reply) ==
    LET errors_response == strip(split(reply, "\r\n")[1], {" ", ",", "\r\n"})
        pieces == split(errors_response, "ERROR")
        errors == [ i \in 1..(Len(pieces) - 1) |->
                      strip(pieces[i], {" ", "\t", "\r\n"}) \o <<" ", "ERROR">> ]
    IN IF errors = <<>> THEN [exc |-> "IndexError", ret |-> <<>>]
       ELSE IF errors[1] = <<"NO", " ", "ERROR">>
            THEN [exc |-> "none", ret |-> <<>>]
            ELSE [exc |-> "none", ret |-> errors]

HpCheckErrors(reply) ==
    /\ UNCHANGED <<address, connection, buf, trace, last>>
    /\ hp' = [op |-> "check_errors", reply |-> reply,
              exc |-> check_errors(reply).exc, result |-> check_errors(reply).ret,
              dev |-> hp.dev]

InitHP ==
    /\ address = <<IntVal(7)>>
    /\ connection = <<"ASRL5::INSTR">>
    /\ hp = HpIdle
    /\ buf = InitCall(TRUE).buf
    /\ trace = InitCall(TRUE).trace
    /\ last = [op |-> "init", self |-> 1, arg |-> IntVal(7), exc |-> "none",
               ret |-> "None"]

NextHP ==
    \/ \E p \in DOMAIN HP3314A, value \in HpValues : HpSet(p, value)
    \/ \E p \in DOMAIN HP3314A : HpGet(p)
    \/ \E reply \in IerrReplies : HpCheckErrors(reply)

SpecHP == InitHP /\ [][NextHP]_vars

(* ------------------------------------------------------------------ *)
(* Reading the record of the last call                                 *)
(* ------------------------------------------------------------------ *)

\* positions of `trace` holding an event of kind ev
At(ev) == { k \in 1..Len(trace) : trace[k].ev = ev }

\* the commands the last call wrote, in order
Written ==
    LET w == SelectSeq(trace, LAMBDA e : e.ev = "write")
    IN [ k \in 1..Len(w) |-> w[k].cmd ]

\* positions of `trace` where an addressed command (wrt / rd) was written
Addressed == { k \in At("write") : trace[k].cmd[1] \in {"wrt", "rd"} }

\* the address field of an addressed command
AddrField(cmd) == IF cmd[1] = "wrt" THEN cmd[2] ELSE cmd[Len(cmd)]

\* positions of `trace` where `stat n` was written
StatQueries == { k \in At("write") : trace[k].cmd = <<"stat", "n">> }

Bit(n, b) == (n \div b) % 2 = 1

\* the status query of the last call reported an error
ErrReported == \E k \in At("debug") : Bit(trace[k].stat, 32768)

(* ------------------------------------------------------------------ *)
(* Claims                                                              *)
(* ------------------------------------------------------------------ *)

\* C1: every addressed command (wrt / rd) a write, write_bytes, read or
\* read_bytes call places on the shared connection carries the address of
\* the instance the call was made on, and not the address of an instance
\* whose address differs.
C1_OwnAddress ==
    last.op \in {"write", "write_bytes", "read", "read_bytes"} =>
        /\ Addressed # {}
        /\ \A k \in Addressed :
             /\ AddrField(trace[k].cmd) = Str(address[last.self])
             /\ \A j \in DOMAIN address :
                  Str(address[j]) # Str(address[last.self]) =>
                      AddrField(trace[k].cmd) # Str(address[j])

C1_Witness ==
    /\ Len(address) = 2
    /\ address[1] = IntVal(7)
    /\ address[2] = IntVal(31)
    /\ last.op = "write"
    /\ last.self = 2
    /\ \E k \in Addressed : trace[k].cmd[2] = "31"

\* C2: write, write_bytes and send_command first send their command and
\* then, before returning, send `stat n`; `stat n` never precedes the
\* command and is never left out.
C2_StatusAfterCommand ==
    last.op \in {"write", "write_bytes", "send_command"} =>
        /\ Len(Written) >= 2
        /\ Written[1][1] = (IF last.op = "send_command" THEN "cmd" ELSE "wrt")
        /\ Written[1][3] = (IF last.op = "send_command" THEN last.arg[2] ELSE last.arg)
        /\ StatQueries # {}
        /\ \A k \in StatQueries : \E j \in At("write") :
             j < k /\ trace[j].cmd[1] \in {"wrt", "cmd"}

C2_Witness ==
    /\ last.op = "send_command"
    /\ last.exc = "none"
    /\ Len(Written) >= 2
    /\ Written[1][1] = "cmd"
    /\ Written[2] = <<"stat", "n">>

\* C3: when the status query reports an error (ERR set), write, write_bytes,
\* read and read_bytes return without raising, their addressed command is
\* on the connection exactly once, and read returns the first line the box
\* answered to its own `rd`.
C3_ErrorIsOnlyLogged ==
    (last.op \in {"write", "write_bytes", "read", "read_bytes"} /\ ErrReported) =>
        /\ last.exc = "none"
        /\ Cardinality(Addressed) = 1
        /\ last.op = "read" =>
             /\ last.ret.re = <<"rd", Str(address[last.self])>>
             /\ last.ret.pos = 1
             /\ last.ret.age = 0

C3_Witness ==
    /\ last.op = "read"
    /\ ErrReported
    /\ last.exc = "none"
    /\ last.ret.val = "HP3314A"
    /\ At("warning") # {}

\* C4: an error check logs one warning when the ERR bit (32768) of the GPIB
\* status integer is set and none when it is clear, whatever the GPIB error,
\* the serial error and the byte count.
C4_WarningIffErrBit ==
    \A k \in At("debug") :
        Cardinality(At("warning")) = (IF Bit(trace[k].stat, 32768) THEN 1 ELSE 0)

C4_Witness ==
    /\ At("warning") = {}
    /\ \E k \in At("debug") :
         /\ ~Bit(trace[k].stat, 32768)
         /\ trace[k].err # 0
         /\ trace[k].ser # 0
         /\ trace[k].count # 0

\* C5: an error check reads exactly four lines after sending `stat n`, the
\* four lines the box answered to it, and takes them in this order as GPIB
\* status, GPIB error, serial error and byte count.
C5_FourStatusLines ==
    \A d \in At("debug") : \E q \in StatQueries :
        /\ d = q + 5
        /\ { k \in At("read") : k > q } = (q + 1)..(q + 4)
        /\ \A i \in 1..4 :
             /\ trace[q + i].line.re = <<"stat", "n">>
             /\ trace[q + i].line.pos = i
             /\ trace[q + i].line.age = 0
        /\ ToString(trace[d].stat) = trace[q + 1].line.val
        /\ ToString(trace[d].err) = trace[q + 2].line.val
        /\ ToString(trace[d].ser) = trace[q + 3].line.val
        /\ ToString(trace[d].count) = trace[q + 4].line.val

C5_Witness ==
    /\ last.op = "write_bytes"
    /\ \E d \in At("debug") :
         /\ trace[d].stat = 16640
         /\ trace[d].err = 2
         /\ trace[d].ser = 1
         /\ trace[d].count = 5

\* C6 as stated: an error check writes exactly one command to the
\* connection (each of these calls writes one command of its own).
C6_OneCommandPerCheck ==
    (/\ last.op \in {"write", "write_bytes", "send_command", "read", "read_bytes"}
     /\ StatQueries # {}) =>
        Len(Written) - 1 = 1

\* C6 amended: an error check writes exactly two commands, `stat n` first
\* and a bare `stat` last; only the answer to `stat n` is read.
C6_TwoCommandsPerCheck ==
    (/\ last.op \in {"write", "write_bytes", "send_command", "read", "read_bytes"}
     /\ StatQueries # {}) =>
        /\ Len(Written) - 1 = 2
        /\ Written[2] = <<"stat", "n">>
        /\ Written[3] = <<"stat">>
        /\ trace[Len(trace)] = [ev |-> "write", cmd |-> <<"stat">>]
        /\ \A q \in StatQueries : \A k \in At("read") :
             k > q => trace[k].line.re = <<"stat", "n">>

C6_Witness ==
    /\ last.op = "read_bytes"
    /\ last.exc = "none"
    /\ Len(Written) = 3
    /\ Written[3] = <<"stat">>

\* C7: read writes `rd <address>`, then reads exactly one line, and only
\* then runs the error check; it returns that line, never a status line.
\* (When no line arrives the read raises, and there is no check and no
\* returned value.)
C7_ReadOrder ==
    last.op = "read" =>
        \E w \in At("write") :
            /\ \A k \in At("write") \cup At("read") : w <= k
            /\ trace[w].cmd = <<"rd", Str(address[last.self])>>
            /\ \A q \in StatQueries :
                 /\ q > w + 2
                 /\ trace[w + 1].ev = "read"
                 /\ trace[w + 2].ev = "flush"
            /\ last.exc = "none" =>
                 /\ StatQueries # {}
                 /\ last.ret = trace[w + 1].line
                 /\ last.ret.re # <<"stat", "n">>

C7_Witness ==
    /\ last.op = "read"
    /\ last.exc = "none"
    /\ last.ret.val = "HP3314A"
    /\ Len(trace) >= 10

\* C8 as stated: the timeout condition of the GPIB status tests true exactly
\* when bit 16384 of the status integer is set.
C8_TimeoutIsBit16384 ==
    \A k \in At("debug") :
        ("TIMO" \in trace[k].names) <=> Bit(trace[k].stat, 16384)

\* C9 as stated: every instance's address is none or an integer in 0..30.
C9_AddressInRange ==
    \A i \in DOMAIN address :
        address[i].tag = "none" \/ address[i].val \in 0..30

\* C9 amended: every instance's address is the value passed to the
\* constructor or to gpib(), stored as passed and never changed afterwards.
C9_AddressAsPassed ==
    /\ (last.op = "init" => address = <<last.arg>>)
    /\ [][ IF last'.op = "gpib"
           THEN address' = Append(address, last'.arg)
           ELSE address' = address ]_vars

C9_Witness ==
    /\ last.op = "gpib"
    /\ last.arg = IntVal(31)
    /\ address[Len(address)] = IntVal(31)

C10_NoPrefixWithoutAddress ==
    last.op \in {"write", "write_bytes"} =>
        Written[1] = (IF address[last.self].tag = "none"
                      THEN <<last.arg>>
                      ELSE <<"wrt", ToString(address[last.self].val), last.arg>>)

\* C14 as stated: a non-zero GPIB error code, and a non-zero serial error
\* code, tests true (value AND member = member) for the member named for
\* that code and for no other non-zero member of its enumeration.
C14_UniqueDecoding ==
    \A k \in At("debug") :
        /\ trace[k].err # 0 =>
             { m \in trace[k].errnames : GPIB_ERR[m] # 0 }
                 = { m \in DOMAIN GPIB_ERR : GPIB_ERR[m] = trace[k].err }
        /\ trace[k].ser # 0 =>
             { m \in trace[k].sernames : SERIAL_ERR[m] # 0 }
                 = { m \in DOMAIN SERIAL_ERR : SERIAL_ERR[m] = trace[k].ser }

\* C15: read_bytes(count) sends `rd #<n> <address>` and then reads n bytes,
\* n being 255 for count -1 and count otherwise; the error check runs only
\* after the bytes were read.
C15_ReadBytesCount ==
    last.op = "read_bytes" =>
        LET n == IF last.arg = -1 THEN 255 ELSE last.arg IN
        /\ Written[1] = <<"rd", "#" \o ToString(n), Str(address[last.self])>>
        /\ \A k \in At("read_bytes") :
             /\ trace[k].n = n
             /\ trace[k - 1] = [ev |-> "write", cmd |-> Written[1]]
             /\ \A q \in StatQueries : q > k
        /\ Cardinality(At("read_bytes")) = (IF last.exc = "none" THEN 1 ELSE 0)
        /\ StatQueries # {} => At("read_bytes") # {}

C15_Witness ==
    /\ last.op = "read_bytes"
    /\ last.arg = -1
    /\ last.exc = "none"
    /\ \E k \in At("read_bytes") : trace[k].n = 255
    /\ StatQueries # {}

\* C16: constructing an adapter always sends `EOS D`; `EOT <0|1>` follows
\* only when the adapter is constructed from a resource name, and no EOT
\* command is sent when gpib() constructs it from an existing adapter.
C16_EoiOnlyFromResourceName ==
    /\ last.op = "init" =>
         /\ Len(Written) = 2
         /\ Written[1] = <<"EOS", "D">>
         /\ Written[2] \in { <<"EOT", "0">>, <<"EOT", "1">> }
    /\ last.op = "gpib" =>
         /\ Written # <<>>
         /\ Written[1] = <<"EOS", "D">>
         /\ \A k \in 1..Len(Written) : Written[k][1] # "EOT"

C16_Witness ==
    /\ last.op = "gpib"
    /\ last.exc = "none"
    /\ Written = << <<"EOS", "D">> >>

\* positions of `trace` where a reply was read
Reads == At("read") \cup At("read_bytes")

\* the position of the last command written before position k
QueryOf(k) == CHOOSE q \in At("write") :
                  q < k /\ \A j \in At("write") : j < k => j <= q

C18_OwnReplies ==
    last.op \in {"write", "write_bytes", "send_command", "read", "read_bytes",
                 "ask"} =>
        /\ \A k \in Reads :
             /\ trace[k].line.age = 0
             /\ trace[k].line.by = last.self
             /\ trace[k].line.re = trace[QueryOf(k)].cmd
        /\ \A d \in At("debug") : \A i \in 1..4 :
             /\ trace[d - i].ev = "read"
             /\ trace[d - i].line.re = <<"stat", "n">>
        /\ (last.op = "read" /\ last.exc = "none") =>
             /\ last.ret.re = <<"rd", Str(address[last.self])>>
             /\ last.ret.by = last.self
             /\ last.ret.age = 0

C18_Witness ==
    /\ Len(address) = 2
    /\ last.op = "read"
    /\ last.self = 2
    /\ last.exc = "none"
    /\ last.ret.by = 2
    /\ last.ret.re[1] = "rd"
    /\ buf # <<>>

\* the value a reply was parsed to equals v (2.0 equals 2)
ParsedAs(result, v) == result.exc = "none" /\ result.val = v /\ result.frac = <<>>

\* C12 as stated: reading a control property of HP3314A parses the reply,
\* which has the format of the property's set command for the accepted
\* value the instrument holds, back to that value.
C12_GetSetRoundTrip ==
    hp.op = "get" => ParsedAs(hp.result, hp.dev[hp.prop])

\* C13 as stated: HP853A.check_errors returns a list for every reply, the
\* empty list for NO ERROR, and fails on no reply.
C13_AlwaysReturnsList ==
    hp.op = "check_errors" =>
        /\ hp.exc = "none"
        /\ hp.reply = <<"NO", " ", "ERROR", "\r\n">> => hp.result = <<>>

====
